---- MODULE Spec2Model ----
(***************************************************************************)
(* BaseTxSender (sdk/src/tx/baseTxSender.ts): the confirmation race of     *)
(* confirmTransaction, the deadline of promiseTimeout, the list of         *)
(* additional connections and the timeout counter.                         *)
(*                                                                         *)
(* JavaScript runs each synchronous segment to completion.  A call that is *)
(* in a synchronous segment (registering its callbacks, or running its     *)
(* finally block) holds the thread: no other operation, timer or           *)
(* asynchronous callback runs until the segment ends (InSync).  Between    *)
(* segments (while the call awaits the race) everything else may run.      *)
(* Endpoints (Connection objects) are external: whether onSignature throws, *)
(* whether a callback is invoked inside onSignature, later or never, and   *)
(* whether removeSignatureListener throws are nondeterministic choices.    *)
(* A connection hands out consecutive handles, starting at 0 when fresh.   *)
(***************************************************************************)
EXTENDS Integers, Sequences, FiniteSets, TLC

(***************************************************************************)
(* Bounds                                                                  *)
(***************************************************************************)
MaxCalls == 2
MaxConn == 2
MaxAdds == 2
NumAddresses == 2
MaxConnAlone == 3
MaxAddsAlone == 4
MaxFanOuts == 1
NumRawTx == 2
MaxReads == 1
MaxAddsCounter == 1
MaxSigners == 3
NumSigners == 2
MaxFanOutsCounter == 1

(***************************************************************************)
(* bs58.decode (line 165) and the length assertion (line 170)              *)
(***************************************************************************)
SIGNATURE_LENGTH == 64

ALPHABET ==
  << "1","2","3","4","5","6","7","8","9",
     "A","B","C","D","E","F","G","H","J","K","L","M","N","P","Q","R","S","T",
     "U","V","W","X","Y","Z",
     "a","b","c","d","e","f","g","h","i","j","k","m","n","o","p","q","r","s",
     "t","u","v","w","x","y","z" >>

BASE == Len(ALPHABET)

\* The character is a base-58 digit.
InAlphabet(ch) == \E k \in 1..BASE : ALPHABET[k] = ch

\* BASE_MAP of base-x: the digit value of a character of the alphabet.
BaseMap(ch) == (CHOOSE k \in 1..BASE : ALPHABET[k] = ch) - 1

RECURSIVE LeadingOnes(_)
LeadingOnes(s) ==
  IF s # << >> /\ Head(s) = "1" THEN 1 + LeadingOnes(Tail(s)) ELSE 0

RECURSIVE DigitsValue(_, _)
DigitsValue(s, acc) ==
  IF s = << >> THEN acc ELSE DigitsValue(Tail(s), acc * BASE + BaseMap(Head(s)))

RECURSIVE ToBytes(_)
ToBytes(n) == IF n = 0 THEN << >> ELSE Append(ToBytes(n \div 256), n % 256)

\* bs58.decode: a leading "1" is a zero byte, the rest is a base-58 number
\* written out in base 256; a character outside the alphabet makes it throw.
bs58decode(s) ==
  IF \E k \in 1..Len(s) : ~InAlphabet(s[k])
  THEN [ok |-> FALSE, bytes |-> << >>]
  ELSE LET z == LeadingOnes(s)
       IN  [ok |-> TRUE,
            bytes |-> [k \in 1..z |-> 0]
                        \o ToBytes(DigitsValue(SubSeq(s, z + 1, Len(s)), 0))]

\* The signature strings the callers pass: n times "1", then a short tail
\* ("0" is not a base-58 digit, "5R" is the number 256).
Ones(n) == [k \in 1..n |-> "1"]

Signatures ==
  { [ones |-> n, tail |-> t] :
      n \in {SIGNATURE_LENGTH - 1, SIGNATURE_LENGTH},
      t \in { << >>, <<"2">>, <<"0">> } }

\* A wider set, for a sender that makes a single call.
AllSignatures ==
  { [ones |-> n, tail |-> t] :
      n \in {0, 1} \cup ((SIGNATURE_LENGTH - 3)..(SIGNATURE_LENGTH + 1)),
      t \in { << >>, <<"2">>, <<"0">>, <<"5","R">>, <<"z","z">>, <<"2","l">>,
              <<"I">>, <<"z","z","z">> } }

SigText(sg) == Ones(sg.ones) \o sg.tail

(***************************************************************************)
(* Connections, handles, payloads                                          *)
(***************************************************************************)
Calls == 1..MaxCalls

Conns == 1..MaxConn

\* this.connection (line 45): the primary connection object.
PrimaryConnection == 1

\* connection._rpcEndpoint / connection.rpcEndpoint (line 265): the address of
\* a connection object.  Two connection objects may have the same address.
RpcEndpoint(e) == ((e - 1) % NumAddresses) + 1

\* The value of `let subscriptionId;` before it is assigned (line 179) and of
\* an array slot set to undefined (line 185).
Undefined == -1

\* if (subscriptionId) (line 206): undefined and 0 are falsy.
Truthy(id) == id # Undefined /\ id # 0

\* The result and context a connection passes to the callback (line 184):
\* each connection reports the slot it saw, and only the primary a success.
PayloadOf(e) ==
  [slot |-> 41 + e,
   err |-> IF e = PrimaryConnection THEN "null" ELSE "InstructionError"]

\* let response = null (line 177).
NoResponse == [slot |-> -1, err |-> "none"]

\* subscriptionIds[i] = v (line 185) on a JavaScript array: an index equal to
\* the length extends the array by one slot.  i is the 1-based index.
ArraySet(arr, i, v) ==
  IF i <= Len(arr) THEN [arr EXCEPT ![i] = v] ELSE Append(arr, v)

\* Promise.race (line 238) over promises of which some are already settled:
\* the reactions are queued in array order, so the first settled promise of
\* the array decides; the deadline promise is last and still pending.
FirstSettled(proms) ==
  IF \E k \in 1..Len(proms) : proms[k] # "pending"
  THEN LET k == CHOOSE j \in 1..Len(proms) :
                  /\ proms[j] # "pending"
                  /\ \A m \in 1..(j - 1) : proms[m] = "pending"
       IN  proms[k]
  ELSE "pending"

VARIABLES
  additionalConnections,  \* this.additionalConnections
  timeoutCount,           \* this.timeoutCount
  nextId,                 \* per connection: the next handle onSignature returns
  listeners,              \* callbacks registered on the connections
  pc,                     \* per call: position in confirmTransaction
  signature,              \* per call: the signature argument
  connections,            \* per call: const connections (line 176)
  promises,               \* per call: state of each confirmPromise
  subscriptionIds,        \* per call: const subscriptionIds (line 175)
  response,               \* per call: let response (line 177)
  race,                   \* per call: state of Promise.race(...) (line 238)
  timeoutId,              \* per call: the timer of promiseTimeout
  cursor,                 \* per call: position of the finally loop
  outcome,                \* per call: what the call returned or threw
  cbLog,                  \* history, per call: the callbacks invoked
  removeLog,              \* history, per call: removeSignatureListener calls,
                          \* with the calls whose subscription was removed
  addLog,                 \* history: arguments of addAdditionalConnection
  sends,                  \* the sendRawTransaction promises of the additional
                          \* connections: [fanOut, conn, rawTx, state]
  fanOuts,                \* sendToAdditionalConnections calls that returned
  reads,                  \* history: the values getTimeoutCount returned
  opts,                   \* this.opts.commitment
  commitment,             \* per call: the commitment argument
  subscriptionCommitment, \* per call: line 173
  regLog,                 \* history, per call: the onSignature calls,
                          \* [conn, signature, commitment, id]
  prepPc,                 \* prepareTx: where the call is
  additionalSigners,      \* prepareTx: the argument
  tx,                     \* prepareTx: the transaction
  todo,                   \* prepareTx: what forEach has still to visit
  signLog,                \* history: the partialSign and signTransaction calls
  prepOutcome             \* prepareTx: how the call ended

vars ==
  << additionalConnections, timeoutCount, nextId, listeners, pc, signature,
     connections, promises, subscriptionIds, response, race, timeoutId,
     cursor, outcome, cbLog, removeLog, addLog, sends, fanOuts,
     reads, opts, commitment, subscriptionCommitment, regLog, prepPc,
     additionalSigners, tx, todo, signLog, prepOutcome >>

\* The state of a prepareTx call.
prepVars == << prepPc, additionalSigners, tx, todo, signLog, prepOutcome >>

\* The state of the operations other than confirmTransaction and
\* addAdditionalConnection.
otherVars == << sends, fanOuts, reads, prepVars >>

callVars ==
  << pc, signature, connections, promises, subscriptionIds, response, race,
     timeoutId, cursor, outcome, cbLog, removeLog >>

\* What a call is given and what it asked of the connections, apart from
\* callVars.
commitVars == << opts, commitment, subscriptionCommitment, regLog >>

\* A transaction that prepareTx has not touched yet.
NewTransaction == [feePayer |-> "unset", recentBlockhash |-> "unset", signatures |-> << >>]

\* Commitment levels a caller may name, and the value of an argument or
\* option that is not given.
Commitments == {"processed", "finalized"}
NoCommitment == "undefined"

NoSignature == [ones |-> 0, tail |-> << >>]

Pending == [kind |-> "pending", value |-> NoResponse]

\* constructor (lines 32-50), with the default additionalConnections and
\* with opts.commitment = o.
InitWith(o) ==
  /\ additionalConnections = << >>
  /\ timeoutCount = 0
  /\ \E first \in {0, 1} : nextId = [e \in Conns |-> first]
  /\ listeners = {}
  /\ pc = [c \in Calls |-> "idle"]
  /\ signature = [c \in Calls |-> NoSignature]
  /\ connections = [c \in Calls |-> << >>]
  /\ promises = [c \in Calls |-> << >>]
  /\ subscriptionIds = [c \in Calls |-> << >>]
  /\ response = [c \in Calls |-> NoResponse]
  /\ race = [c \in Calls |-> "pending"]
  /\ timeoutId = [c \in Calls |-> "unset"]
  /\ cursor = [c \in Calls |-> 0]
  /\ outcome = [c \in Calls |-> Pending]
  /\ cbLog = [c \in Calls |-> << >>]
  /\ removeLog = [c \in Calls |-> << >>]
  /\ addLog = << >>
  /\ sends = << >>
  /\ fanOuts = 0
  /\ reads = << >>
  /\ opts = o
  /\ commitment = [c \in Calls |-> NoCommitment]
  /\ subscriptionCommitment = [c \in Calls |-> NoCommitment]
  /\ regLog = [c \in Calls |-> << >>]
  /\ prepPc = "idle"
  /\ additionalSigners = << >>
  /\ tx = NewTransaction
  /\ todo = << >>
  /\ signLog = << >>
  /\ prepOutcome = "pending"

\* A sender constructed with the default opts (line 35),
\* AnchorProvider.defaultOptions(), whose commitment is "processed".
Init == InitWith("processed")

\* A sender constructed with any opts.
InitAnyOpts == \E o \in Commitments \cup {NoCommitment} : InitWith(o)

\* A call holds the thread: it is in the registration loop up to the await
\* (lines 175-203), in the finally block and what follows (204-222), or its
\* race has settled and the microtasks that resume it are queued (they run
\* before any timer or input event).
Running(c) ==
  \/ pc[c] \in {"subscribing", "cleanup"}
  \/ pc[c] = "racing" /\ race[c] # "pending"

InSync == \E c \in Calls : Running(c)

(***************************************************************************)
(* confirmTransaction                                                      *)
(***************************************************************************)
\* CheckSignature with an assertion that only rejects short signatures.
CheckSignature_AtLeast(sg) ==
  LET decodedSignature == bs58decode(SigText(sg))
  IN  IF ~decodedSignature.ok THEN "notBase58"
      ELSE IF Len(decodedSignature.bytes) < SIGNATURE_LENGTH THEN "invalidLength"
      ELSE "ok"

\* Lines 163-170: bs58.decode in a try/catch, then the length assertion.
\* "ok", or the error the call throws.
CheckSignature(sg) ==
  LET decodedSignature == bs58decode(SigText(sg))
  IN  IF ~decodedSignature.ok THEN "notBase58"
      ELSE IF Len(decodedSignature.bytes) # SIGNATURE_LENGTH THEN "invalidLength"
      ELSE "ok"

\* Line 176: the connections of this call.
ConnectionsOf(additional) == <<PrimaryConnection>> \o additional

\* EffectiveCommitment for a call that ignores its commitment argument.
EffectiveCommitment_Default(cm, default) == default

\* Line 173: commitment || this.opts.commitment.  A commitment level is a
\* non-empty string, so the argument is falsy only when it is not given.
EffectiveCommitment(cm, default) == IF cm # NoCommitment THEN cm ELSE default

\* Lines 159-176: the call starts; an invalid signature ends it at once.
\* Calls are numbered in the order in which they start.
ConfirmStart(c, sg, cm) ==
  /\ ~InSync
  /\ pc[c] = "idle"
  /\ \A d \in Calls : d < c => pc[d] # "idle"
  /\ signature' = [signature EXCEPT ![c] = sg]
  /\ commitment' = [commitment EXCEPT ![c] = cm]
  /\ IF CheckSignature(sg) = "ok"
     THEN /\ pc' = [pc EXCEPT ![c] = "subscribing"]
          /\ subscriptionCommitment' =
               [subscriptionCommitment EXCEPT ![c] = EffectiveCommitment(cm, opts)]
          /\ connections' =
               [connections EXCEPT ![c] = ConnectionsOf(additionalConnections)]
          /\ UNCHANGED outcome
     ELSE /\ pc' = [pc EXCEPT ![c] = "done"]
          /\ outcome' =
               [outcome EXCEPT ![c] = [kind |-> CheckSignature(sg), value |-> NoResponse]]
          /\ UNCHANGED << connections, subscriptionCommitment >>
  /\ UNCHANGED << additionalConnections, timeoutCount, nextId, listeners,
                  promises, subscriptionIds, response, race, timeoutId, cursor,
                  cbLog, removeLog, addLog >>
  /\ UNCHANGED otherVars
  /\ UNCHANGED << opts, regLog >>

\* Lines 184-191: the callback of connection number i (1-based) of call c,
\* invoked with payload p.  The values of subscriptionIds, response and the
\* promise after it ran.
CallbackIds(ids, i) == ArraySet(ids, i, Undefined)

CallbackResponse(old, p) == p

\* Lines 181-192: the arguments of connection.onSignature and what it
\* returned (Undefined when it threw).
Registration(c, e, id) ==
  [conn |-> e, signature |-> signature[c],
   commitment |-> subscriptionCommitment[c], id |-> id]

\* Lines 178-200, one iteration of connections.map: onSignature on the next
\* connection either throws (the promise is rejected), returns a handle, or
\* returns a handle after it has already invoked the callback.
Register(c) ==
  /\ pc[c] = "subscribing"
  /\ Len(promises[c]) < Len(connections[c])
  /\ LET i == Len(promises[c]) + 1
         e == connections[c][i]
         id == nextId[e]
     IN  \/ /\ promises' = [promises EXCEPT ![c] = Append(@, "rejected")]
            /\ subscriptionIds' = [subscriptionIds EXCEPT ![c] = Append(@, Undefined)]
            /\ regLog' = [regLog EXCEPT ![c] = Append(@, Registration(c, e, Undefined))]
            /\ UNCHANGED << nextId, listeners, response, cbLog >>
         \/ /\ promises' = [promises EXCEPT ![c] = Append(@, "pending")]
            /\ subscriptionIds' = [subscriptionIds EXCEPT ![c] = Append(@, id)]
            /\ nextId' = [nextId EXCEPT ![e] = id + 1]
            /\ listeners' = listeners \cup
                 {[conn |-> e, id |-> id, call |-> c, idx |-> i]}
            /\ regLog' = [regLog EXCEPT ![c] = Append(@, Registration(c, e, id))]
            /\ UNCHANGED << response, cbLog >>
         \/ LET p == PayloadOf(e)
            IN
              /\ promises' = [promises EXCEPT ![c] = Append(@, "resolved")]
              /\ subscriptionIds' =
                   [subscriptionIds EXCEPT ![c] = Append(CallbackIds(@, i), id)]
              /\ response' = [response EXCEPT ![c] = CallbackResponse(@, p)]
              /\ nextId' = [nextId EXCEPT ![e] = id + 1]
              /\ cbLog' = [cbLog EXCEPT ![c] =
                   Append(@, [idx |-> i, payload |-> p, at |-> "subscribing"])]
              /\ regLog' = [regLog EXCEPT ![c] = Append(@, Registration(c, e, id))]
              /\ UNCHANGED listeners
  /\ UNCHANGED << additionalConnections, timeoutCount, pc, signature,
                  connections, race, timeoutId, cursor, outcome, removeLog,
                  addLog, opts, commitment, subscriptionCommitment >>
  /\ UNCHANGED otherVars

\* Lines 203 and 229-238: promiseTimeout starts the timer and races the
\* promises against it; confirmTransaction awaits the race.
StartRace(c) ==
  /\ pc[c] = "subscribing"
  /\ Len(promises[c]) = Len(connections[c])
  /\ timeoutId' = [timeoutId EXCEPT ![c] = "pending"]
  /\ race' = [race EXCEPT ![c] = FirstSettled(promises[c])]
  /\ pc' = [pc EXCEPT ![c] = "racing"]
  /\ UNCHANGED << additionalConnections, timeoutCount, nextId, listeners,
                  signature, connections, promises, subscriptionIds, response,
                  cursor, outcome, cbLog, removeLog, addLog >>
  /\ UNCHANGED otherVars
  /\ UNCHANGED commitVars

\* Lines 184-191: a connection invokes a registered callback (once: a
\* signature notification ends the subscription on the connection).
Callback(l) ==
  /\ ~InSync
  /\ l \in listeners
  /\ LET c == l.call
         i == l.idx
         p == PayloadOf(l.conn)
     IN  /\ subscriptionIds' = [subscriptionIds EXCEPT ![c] = CallbackIds(@, i)]
         /\ response' = [response EXCEPT ![c] = CallbackResponse(@, p)]
         /\ promises' = [promises EXCEPT ![c][i] =
              IF @ = "pending" THEN "resolved" ELSE @]
         /\ race' = [race EXCEPT ![c] =
              IF pc[c] = "racing" /\ @ = "pending" /\ promises[c][i] = "pending"
              THEN "resolved" ELSE @]
         /\ cbLog' = [cbLog EXCEPT ![c] =
              Append(@, [idx |-> i, payload |-> p, at |-> pc[c]])]
  /\ listeners' = listeners \ {l}
  /\ UNCHANGED << additionalConnections, timeoutCount, nextId, pc, signature,
                  connections, timeoutId, cursor, outcome, removeLog, addLog >>
  /\ UNCHANGED otherVars
  /\ UNCHANGED commitVars

\* Line 235: the timer fires and resolves the deadline promise.
TimerFire(c) ==
  /\ ~InSync
  /\ timeoutId[c] = "pending"
  /\ timeoutId' = [timeoutId EXCEPT ![c] = "fired"]
  /\ race' = [race EXCEPT ![c] =
       IF pc[c] = "racing" /\ @ = "pending" THEN "timedout" ELSE @]
  /\ UNCHANGED << additionalConnections, timeoutCount, nextId, listeners, pc,
                  signature, connections, promises, subscriptionIds, response,
                  cursor, outcome, cbLog, removeLog, addLog >>
  /\ UNCHANGED otherVars
  /\ UNCHANGED commitVars

\* AfterAwait for an await that is not inside try/finally: a rejected race
\* leaves the function at once.
AfterAwait_NoFinally(raceState) ==
  IF raceState = "rejected" THEN "done" ELSE "cleanup"

\* Lines 202-204: the await is inside try, so the finally block runs next
\* whether the race was fulfilled or rejected.
AfterAwait(raceState) == "cleanup"

\* Lines 238-243 and 202-204: the race has settled.  A fulfilled race runs
\* the then-handler, which clears the timer; a rejected race skips it.  The
\* await ends and the finally block starts.
Resume(c) ==
  /\ pc[c] = "racing"
  /\ race[c] # "pending"
  /\ timeoutId' = [timeoutId EXCEPT ![c] =
       IF race[c] # "rejected" /\ @ = "pending" THEN "cleared" ELSE @]
  /\ pc' = [pc EXCEPT ![c] = AfterAwait(race[c])]
  /\ cursor' = [cursor EXCEPT ![c] = 1]
  /\ UNCHANGED << additionalConnections, timeoutCount, nextId, listeners,
                  signature, connections, promises, subscriptionIds, response,
                  race, outcome, cbLog, removeLog, addLog >>
  /\ UNCHANGED otherVars
  /\ UNCHANGED commitVars

\* Line 206: the finally loop calls removeSignatureListener for this entry.
ShouldRemove(subscriptionId) == Truthy(subscriptionId)

\* What a call ends with: a kind and, for a result, the response.
Ended(kind, value) == [kind |-> kind, value |-> value]

\* The calls whose subscription the connection e knows under the handle id.
ListenerOwners(e, id) == {l.call : l \in {m \in listeners : m.conn = e /\ m.id = id}}

\* Lines 205-209, one entry of subscriptionIds.entries().  A falsy entry is
\* skipped.  For a truthy entry connections[i].removeSignatureListener is
\* called: it succeeds, or it throws (nothing catches the exception, so it
\* leaves the finally block and ends the call).  An
\* entry beyond the end of connections makes connections[i] undefined, and
\* the property access throws a TypeError.
CleanupStep(c) ==
  /\ pc[c] = "cleanup"
  /\ cursor[c] <= Len(subscriptionIds[c])
  /\ LET i == cursor[c]
         subscriptionId == subscriptionIds[c][i]
     IN  IF ~ShouldRemove(subscriptionId)
         THEN /\ cursor' = [cursor EXCEPT ![c] = i + 1]
              /\ UNCHANGED << pc, outcome, listeners, removeLog >>
         ELSE IF i > Len(connections[c])
         THEN /\ pc' = [pc EXCEPT ![c] = "done"]
              /\ outcome' = [outcome EXCEPT ![c] = Ended("typeError", NoResponse)]
              /\ UNCHANGED << cursor, listeners, removeLog >>
         ELSE LET e == connections[c][i]
              IN  \E res \in {"removed", "threw"} :
                    /\ removeLog' = [removeLog EXCEPT ![c] =
                         Append(@, [idx |-> i, conn |-> e, id |-> subscriptionId,
                                    result |-> res,
                                    owners |-> IF res = "removed"
                                               THEN ListenerOwners(e, subscriptionId)
                                               ELSE {}])]
                    /\ listeners' =
                         IF res = "removed"
                         THEN {l \in listeners : ~(l.conn = e /\ l.id = subscriptionId)}
                         ELSE listeners
                    /\ IF res = "threw"
                       THEN /\ pc' = [pc EXCEPT ![c] = "done"]
                            /\ outcome' =
                                 [outcome EXCEPT ![c] = Ended("removeError", NoResponse)]
                            /\ UNCHANGED cursor
                       ELSE /\ cursor' = [cursor EXCEPT ![c] = i + 1]
                            /\ UNCHANGED << pc, outcome >>
  /\ UNCHANGED << additionalConnections, timeoutCount, nextId, signature,
                  connections, promises, subscriptionIds, response, race,
                  timeoutId, cbLog, addLog >>
  /\ UNCHANGED otherVars
  /\ UNCHANGED commitVars

\* NextTimeoutCount for a sender that sets a flag instead of counting.
NextTimeoutCount_Flag(count) == 1

\* Line 213: this.timeoutCount += 1.
NextTimeoutCount(count) == count + 1

\* Lines 210-222: the finally block is over.  A rejected race is rethrown;
\* without a response the counter is incremented and the timeout error is
\* thrown; otherwise the response is returned.
Finish(c) ==
  /\ pc[c] = "cleanup"
  /\ cursor[c] > Len(subscriptionIds[c])
  /\ pc' = [pc EXCEPT ![c] = "done"]
  /\ IF race[c] = "rejected"
     THEN /\ outcome' = [outcome EXCEPT ![c] = Ended("registrationError", NoResponse)]
          /\ UNCHANGED timeoutCount
     ELSE IF response[c] = NoResponse
     THEN /\ timeoutCount' = NextTimeoutCount(timeoutCount)
          /\ outcome' = [outcome EXCEPT ![c] = Ended("timeout", NoResponse)]
     ELSE /\ outcome' = [outcome EXCEPT ![c] = Ended("result", response[c])]
          /\ UNCHANGED timeoutCount
  /\ UNCHANGED << additionalConnections, nextId, listeners, signature,
                  connections, promises, subscriptionIds, response, race,
                  timeoutId, cursor, cbLog, removeLog, addLog >>
  /\ UNCHANGED otherVars
  /\ UNCHANGED commitVars

(***************************************************************************)
(* addAdditionalConnection                                                 *)
(***************************************************************************)
\* AlreadyUsingConnection comparing the connection objects, not the addresses.
AlreadyUsingConnection_SameObject(additional, newConnection) ==
  \E k \in 1..Len(additional) : additional[k] = newConnection

\* Lines 262-266: some additional connection has the address of the new one.
AlreadyUsingConnection(additional, newConnection) ==
  \E k \in 1..Len(additional) :
    RpcEndpoint(additional[k]) = RpcEndpoint(newConnection)

\* SnapshotAfterPush for a call that kept the sender's array itself instead
\* of a copy: the call sees the pushed connection.
SnapshotAfterPush_Alias(snapshot, additional) ==
  IF snapshot = << >> THEN snapshot ELSE ConnectionsOf(additional)

\* Line 176 builds a new array with the spread operator, so a later push on
\* this.additionalConnections (line 269) leaves a call's connections as they
\* were.  snapshot: the call's array; additional: the sender's list after the
\* push.
SnapshotAfterPush(snapshot, additional) == snapshot

\* Lines 261-271.
AddAdditionalConnection(newConnection) ==
  /\ ~InSync
  /\ additionalConnections' =
       IF ~AlreadyUsingConnection(additionalConnections, newConnection)
       THEN Append(additionalConnections, newConnection)
       ELSE additionalConnections
  /\ connections' =
       [c \in Calls |-> SnapshotAfterPush(connections[c], additionalConnections')]
  /\ addLog' = Append(addLog, newConnection)
  /\ UNCHANGED << timeoutCount, nextId, listeners, pc, signature, promises,
                  subscriptionIds, response, race, timeoutId, cursor, outcome,
                  cbLog, removeLog >>
  /\ UNCHANGED otherVars
  /\ UNCHANGED commitVars

Next ==
  \/ \E c \in Calls, sg \in Signatures : ConfirmStart(c, sg, NoCommitment)
  \/ \E c \in Calls : Register(c)
  \/ \E c \in Calls : StartRace(c)
  \/ \E l \in listeners : Callback(l)
  \/ \E c \in Calls : TimerFire(c)
  \/ \E c \in Calls : Resume(c)
  \/ \E c \in Calls : CleanupStep(c)
  \/ \E c \in Calls : Finish(c)
  \/ \E e \in Conns : Len(addLog) < MaxAdds /\ AddAdditionalConnection(e)

(***************************************************************************)
(* sendToAdditionalConnections                                             *)
(***************************************************************************)
\* DispatchTargets for a fan-out that also sends to the primary connection.
DispatchTargets_All(additional) == ConnectionsOf(additional)

\* Line 250: this.additionalConnections.map(...) visits every additional
\* connection once, in order.
DispatchTargets(additional) == additional

\* Lines 251-254: the promise sendRawTransaction returns has a catch handler
\* that writes the error to the console; a fulfilled promise has no handler.
AfterSettle(result) == IF result = "rejected" THEN "logged" ELSE "sent"

\* Lines 246-259: one call of sendRawTransaction per additional connection
\* with the same rawTx; the promises are not awaited.
SendToAdditionalConnections(rawTx) ==
  /\ ~InSync
  /\ fanOuts < MaxFanOuts
  /\ LET targets == DispatchTargets(additionalConnections)
     IN sends' = sends \o
                  [k \in 1..Len(targets) |->
                     [fanOut |-> fanOuts + 1, conn |-> targets[k],
                      rawTx |-> rawTx, state |-> "inflight"]]
  /\ fanOuts' = fanOuts + 1
  /\ UNCHANGED << additionalConnections, timeoutCount, nextId, listeners,
                  callVars, addLog, reads,
                  commitVars, prepVars >>

\* The promise of a dispatch settles: fulfilled with a signature, or rejected.
SendSettle(k) ==
  /\ ~InSync
  /\ sends[k].state = "inflight"
  /\ \E result \in {"fulfilled", "rejected"} :
       sends' = [sends EXCEPT ![k].state = AfterSettle(result)]
  /\ UNCHANGED << additionalConnections, timeoutCount, nextId, listeners,
                  callVars, addLog, fanOuts, reads,
                  commitVars, prepVars >>

(***************************************************************************)
(* getTimeoutCount                                                         *)
(***************************************************************************)
\* Lines 273-275: returns this.timeoutCount.
GetTimeoutCount ==
  /\ ~InSync
  /\ Len(reads) < MaxReads
  /\ reads' = Append(reads, timeoutCount)
  /\ UNCHANGED << additionalConnections, timeoutCount, nextId, listeners,
                  callVars, addLog, sends, fanOuts,
                  commitVars, prepVars >>

(***************************************************************************)
(* prepareTx                                                               *)
(***************************************************************************)
\* The additionalSigners arguments: arrays of signers with entries that may
\* be undefined.
SignerArrays ==
  UNION {[1..n -> (1..NumSigners) \cup {Undefined}] : n \in 0..MaxSigners}

\* SignersToApply without the filter.
SignersToApply_NoFilter(signers) == signers

\* Line 83: additionalSigners.filter((s) => s !== undefined), order kept.
SignersToApply(signers) == SelectSeq(signers, LAMBDA s : s # Undefined)

\* Lines 77-79: the fee payer is set and the blockhash requested; the call
\* waits for the answer.
PrepareTx(signers) ==
  /\ prepPc = "idle"
  /\ additionalSigners' = signers
  /\ tx' = [tx EXCEPT !.feePayer = "wallet"]
  /\ prepPc' = "fetching"
  /\ UNCHANGED << todo, signLog, prepOutcome >>
  /\ UNCHANGED << additionalConnections, timeoutCount, nextId, listeners,
                  callVars, addLog, sends, fanOuts, reads, commitVars >>

\* Lines 78-84: getLatestBlockhash answers and the blockhash is stored, or it
\* fails and the await throws out of prepareTx.
BlockhashSettle ==
  /\ prepPc = "fetching"
  /\ \/ /\ tx' = [tx EXCEPT !.recentBlockhash = "latest"]
        /\ todo' = SignersToApply(additionalSigners)
        /\ prepPc' = "signing"
        /\ UNCHANGED prepOutcome
     \/ /\ prepPc' = "done"
        /\ prepOutcome' = "fetchError"
        /\ UNCHANGED << tx, todo >>
  /\ UNCHANGED << additionalSigners, signLog >>
  /\ UNCHANGED << additionalConnections, timeoutCount, nextId, listeners,
                  callVars, addLog, sends, fanOuts, reads, commitVars >>

\* Lines 84-86: tx.partialSign(kp) for the next entry; it signs, or it throws
\* (a signer the transaction does not name) and prepareTx fails.
PartialSign ==
  /\ prepPc = "signing"
  /\ todo # << >>
  /\ signLog' = Append(signLog, [op |-> "partialSign", signer |-> Head(todo)])
  /\ \/ /\ tx' = [tx EXCEPT !.signatures = Append(@, Head(todo))]
        /\ todo' = Tail(todo)
        /\ UNCHANGED << prepPc, prepOutcome >>
     \/ /\ prepPc' = "done"
        /\ prepOutcome' = "signError"
        /\ UNCHANGED << tx, todo >>
  /\ UNCHANGED additionalSigners
  /\ UNCHANGED << additionalConnections, timeoutCount, nextId, listeners,
                  callVars, addLog, sends, fanOuts, reads, commitVars >>

\* Line 88: the loop is over and the wallet is asked to sign.
WalletSign ==
  /\ prepPc = "signing"
  /\ todo = << >>
  /\ signLog' = Append(signLog, [op |-> "signTransaction", signer |-> "wallet"])
  /\ prepPc' = "wallet"
  /\ UNCHANGED << additionalSigners, tx, todo, prepOutcome >>
  /\ UNCHANGED << additionalConnections, timeoutCount, nextId, listeners,
                  callVars, addLog, sends, fanOuts, reads, commitVars >>

\* Lines 88-90: the wallet returns the signed transaction, or refuses.
WalletSettle ==
  /\ prepPc = "wallet"
  /\ prepPc' = "done"
  /\ \/ /\ tx' = [tx EXCEPT !.signatures = Append(@, "wallet")]
        /\ prepOutcome' = "signed"
     \/ /\ prepOutcome' = "walletError"
        /\ UNCHANGED tx
  /\ UNCHANGED << additionalSigners, todo, signLog >>
  /\ UNCHANGED << additionalConnections, timeoutCount, nextId, listeners,
                  callVars, addLog, sends, fanOuts, reads, commitVars >>

\* A sender with calls in flight at the same time.
Spec == Init /\ [][Next]_vars

\* A sender that makes one confirm call, with any signature.
NextSingle ==
  \/ \E sg \in AllSignatures : ConfirmStart(1, sg, NoCommitment)
  \/ Register(1)
  \/ StartRace(1)
  \/ \E l \in listeners : Callback(l)
  \/ TimerFire(1)
  \/ Resume(1)
  \/ CleanupStep(1)
  \/ Finish(1)
  \/ \E e \in Conns : Len(addLog) < MaxAdds /\ AddAdditionalConnection(e)

SpecSingle == Init /\ [][NextSingle]_vars

\* The steps of a call that need no outside event: the rest of a synchronous
\* segment and the queued microtasks.  The runtime always runs them, and a
\* timer that was set and not cleared fires.
CallProgress(c) ==
  Register(c) \/ StartRace(c) \/ Resume(c) \/ CleanupStep(c) \/ Finish(c)

FairSingle ==
  SpecSingle /\ WF_vars(CallProgress(1)) /\ WF_vars(TimerFire(1))

\* A sender on which only addAdditionalConnection is called.
NextEndpoints ==
  \E e \in 1..MaxConnAlone :
    Len(addLog) < MaxAddsAlone /\ AddAdditionalConnection(e)

SpecEndpoints == Init /\ [][NextEndpoints]_vars

\* A sender whose connections grow and to which raw transactions are fanned
\* out.
NextFanOut ==
  \/ \E e \in Conns : Len(addLog) < MaxAdds /\ AddAdditionalConnection(e)
  \/ \E rawTx \in 1..NumRawTx : SendToAdditionalConnections(rawTx)
  \/ \E k \in 1..Len(sends) : SendSettle(k)

SpecFanOut == Init /\ [][NextFanOut]_vars

\* The signatures of the calls of NextCounter: one of 64 bytes, one of 63.
CounterSignatures == {sg \in Signatures : sg.tail = << >>}

\* A sender on which prepareTx is called once.
NextPrepare ==
  \/ \E signers \in SignerArrays : PrepareTx(signers)
  \/ BlockhashSettle
  \/ PartialSign
  \/ WalletSign
  \/ WalletSettle

SpecPrepare == Init /\ [][NextPrepare]_vars

\* A sender constructed with any opts that makes one confirm call, with or
\* without a commitment argument.
NextCommitment ==
  \/ \E sg \in CounterSignatures, cm \in Commitments \cup {NoCommitment} :
       ConfirmStart(1, sg, cm)
  \/ Register(1)
  \/ StartRace(1)
  \/ \E l \in listeners : Callback(l)
  \/ TimerFire(1)
  \/ Resume(1)
  \/ CleanupStep(1)
  \/ Finish(1)
  \/ \E e \in Conns : Len(addLog) < MaxAdds /\ AddAdditionalConnection(e)

SpecCommitment == InitAnyOpts /\ [][NextCommitment]_vars

\* A sender on which every operation is called: confirm calls in flight at
\* the same time, connections added, raw transactions fanned out and the
\* counter read.
NextCounter ==
  \/ \E c \in Calls, sg \in CounterSignatures : ConfirmStart(c, sg, NoCommitment)
  \/ \E c \in Calls : Register(c)
  \/ \E c \in Calls : StartRace(c)
  \/ \E l \in listeners : Callback(l)
  \/ \E c \in Calls : TimerFire(c)
  \/ \E c \in Calls : Resume(c)
  \/ \E c \in Calls : CleanupStep(c)
  \/ \E c \in Calls : Finish(c)
  \/ \E e \in Conns : Len(addLog) < MaxAddsCounter /\ AddAdditionalConnection(e)
  \/ fanOuts < MaxFanOutsCounter /\ SendToAdditionalConnections(1)
  \/ \E k \in 1..Len(sends) : SendSettle(k)
  \/ GetTimeoutCount

SpecCounter == Init /\ [][NextCounter]_vars

(***************************************************************************)
(* Properties                                                              *)
(***************************************************************************)
Done(c) == pc[c] = "done"

\* The call passed the signature check: it took its connections (line 176).
Started(c) == connections[c] # << >>

ListenersOf(c) == {l \in listeners : l.call = c}

Range(f) == {f[k] : k \in DOMAIN f}

\* The callbacks invoked before the call ended.
InTime(c) == {k \in 1..Len(cbLog[c]) : cbLog[c][k].at # "done"}

\* C1: when a confirm call with a valid signature has returned and no
\* removeSignatureListener request failed, the call has made one registration
\* attempt on each of its connections and no subscription it created is still
\* registered on any connection.
C1_NoSubscriptionLeft ==
  \A c \in Calls :
    (/\ Done(c)
     /\ Started(c)
     /\ \A r \in Range(removeLog[c]) : r.result = "removed")
    => /\ Len(promises[c]) = Len(connections[c])
       /\ ListenersOf(c) = {}

\* C2: the value a confirm call returns is the payload of the first callback
\* invoked for that call.
C2_ReturnsFirstCallback ==
  \A c \in Calls :
    outcome[c].kind = "result" =>
      /\ cbLog[c] # << >>
      /\ outcome[c].value = cbLog[c][1].payload

\* C3: when a registration failed on one connection of a call, the call has
\* still made its attempt on every connection and ends with a callback's
\* result or with the timeout, never with an error.
C3_RegistrationFailureAbsorbed ==
  \A c \in Calls :
    (Done(c) /\ \E k \in 1..Len(promises[c]) : promises[c][k] = "rejected")
    => /\ Len(promises[c]) = Len(connections[c])
       /\ outcome[c].kind \in {"result", "timeout"}

\* C4: a confirm call with a valid signature during which no callback was
\* invoked ends with the timeout, and the counter is the number of calls that
\* ended with the timeout.
C4_SilentCallTimesOut ==
  /\ \A c \in Calls :
       (Done(c) /\ Started(c) /\ InTime(c) = {}) => outcome[c].kind = "timeout"
  /\ timeoutCount = Cardinality({c \in Calls : outcome[c].kind = "timeout"})

\* The signature text is not base 58, or it does not decode to 64 bytes.
NotASignature(sg) ==
  LET d == bs58decode(SigText(sg))
  IN  ~d.ok \/ Len(d.bytes) # 64

\* C5: a confirm call whose signature is not valid base 58 or does not decode
\* to exactly 64 bytes has ended with an invalid-signature error as soon as it
\* started, has registered nothing on any connection, has started no timer
\* and has left the timeout counter and the connections' handles untouched.
C5_InvalidSignatureRejected ==
  \A c \in Calls :
    (pc[c] # "idle" /\ NotASignature(signature[c])) =>
      /\ Done(c)
      /\ outcome[c].kind \in {"notBase58", "invalidLength"}
      /\ connections[c] = << >>
      /\ promises[c] = << >>
      /\ subscriptionIds[c] = << >>
      /\ ListenersOf(c) = {}
      /\ cbLog[c] = << >>
      /\ removeLog[c] = << >>
      /\ timeoutId[c] = "unset"
      /\ \A e \in Conns : nextId[e] \in {0, 1} /\ nextId[e] = nextId[1]
      /\ timeoutCount = 0

\* C5 witness: a call whose signature is base 58 but decodes to more than 64
\* bytes has been rejected by the length assertion.
C5_Witness ==
  \E c \in Calls :
    /\ Done(c)
    /\ NotASignature(signature[c])
    /\ signature[c].ones + Len(signature[c].tail) > 64
    /\ outcome[c].kind = "invalidLength"

\* C6: when exactly one callback was invoked for a call before it ended, the
\* call returns that callback's payload.
C6_OnlyCallbackIsReturned ==
  \A c \in Calls :
    (Done(c) /\ Len(cbLog[c]) = 1 /\ InTime(c) = {1})
    => outcome[c] = Ended("result", cbLog[c][1].payload)

\* C7: a confirm call with a valid signature that has ended was ended by a
\* callback or by its deadline.
C7_EndedByCallbackOrDeadline ==
  \A c \in Calls :
    (Done(c) /\ Started(c)) => (InTime(c) # {} \/ timeoutId[c] = "fired")

\* C8: when removeSignatureListener failed on one connection during the
\* cleanup of a call, the call still ends with its result or the timeout and
\* none of its subscriptions on the other connections is left registered.
C8_RemovalFailureSwallowed ==
  \A c \in Calls :
    (Done(c) /\ \E r \in Range(removeLog[c]) : r.result = "threw")
    => /\ outcome[c].kind \in {"result", "timeout"}
       /\ \A l \in ListenersOf(c) :
            \E r \in Range(removeLog[c]) : r.conn = l.conn /\ r.id = l.id

\* The address of newConnection is the address of an additional connection.
AddressListed(additional, newConnection) ==
  RpcEndpoint(newConnection) \in {RpcEndpoint(e) : e \in Range(additional)}

\* C9: addAdditionalConnection with an address that an additional connection
\* already has changes nothing; otherwise it appends the connection; so the
\* list never holds an address twice and the order of its entries never
\* changes.
C9_AddIsIdempotent ==
  /\ [][\A e \in 1..MaxConnAlone :
          addLog' = Append(addLog, e) =>
            additionalConnections' =
              IF AddressListed(additionalConnections, e)
              THEN additionalConnections
              ELSE Append(additionalConnections, e)]_vars
  /\ [](\A i, j \in 1..Len(additionalConnections) :
          i # j => RpcEndpoint(additionalConnections[i])
                     # RpcEndpoint(additionalConnections[j]))

\* C9 witness: with two additional connections registered, a connection
\* object with the address of the first one (another object, or the same)
\* was added again and the list still has its two entries.
C9_Witness ==
  /\ Len(additionalConnections) = 2
  /\ Len(addLog) >= 4
  /\ \E i, j \in 1..Len(addLog) :
       /\ i < j
       /\ addLog[i] # addLog[j]
       /\ RpcEndpoint(addLog[i]) = RpcEndpoint(addLog[j])
       /\ addLog[i] = additionalConnections[1]
  /\ \E i, j \in 1..Len(addLog) : i < j /\ addLog[i] = addLog[j]

\* C10: no two connections of the sender, the primary one included, have the
\* same address.
C10_AddressesPairwiseDistinct ==
  LET all == ConnectionsOf(additionalConnections)
  IN  \A i, j \in 1..Len(all) :
        i # j => RpcEndpoint(all[i]) # RpcEndpoint(all[j])

C12_FanOutToEveryAdditional ==
  /\ [][fanOuts' # fanOuts =>
          /\ fanOuts' = fanOuts + 1
          /\ Len(sends') = Len(sends) + Len(additionalConnections)
          /\ SubSeq(sends', 1, Len(sends)) = sends
          /\ \A k \in 1..Len(additionalConnections) :
               LET d == sends'[Len(sends) + k]
               IN /\ d.conn = additionalConnections[k]
                  /\ d.fanOut = fanOuts'
                  /\ d.state = "inflight"
                  /\ d.rawTx = sends'[Len(sends) + 1].rawTx]_vars
  /\ [][fanOuts' = fanOuts =>
          /\ Len(sends') = Len(sends)
          /\ \A k \in 1..Len(sends) :
               /\ sends'[k].conn = sends[k].conn
               /\ sends'[k].rawTx = sends[k].rawTx
               /\ sends[k].state # "inflight" => sends'[k] = sends[k]]_vars
  /\ [](\A k \in 1..Len(sends) : sends[k].state \in {"inflight", "sent", "logged"})

\* C12 witness: a fan-out to two additional connections has returned; the
\* send to the first failed and was logged, the send to the second went
\* through.
C12_Witness ==
  /\ fanOuts >= 1
  /\ Len(additionalConnections) = 2
  /\ \E k \in 1..Len(sends) :
       /\ k + 1 <= Len(sends)
       /\ sends[k].fanOut = sends[k + 1].fanOut
       /\ sends[k].conn = additionalConnections[1]
       /\ sends[k + 1].conn = additionalConnections[2]
       /\ sends[k].state = "logged"
       /\ sends[k + 1].state = "sent"

\* Every call that started ends, whether or not a callback is ever invoked.
Termination == \A c \in Calls : (pc[c] # "idle") ~> Done(c)

\* The counter is the number of calls that ended with the timeout.
\* C13: the counter starts at 0, never goes down, and goes up by one exactly
\* in the step in which a confirm call ends with the timeout error; at every
\* moment it is the number of calls that ended that way, and getTimeoutCount
\* returns it without changing it.
C13_CounterCountsTimeouts ==
  /\ timeoutCount = 0
  /\ [][/\ timeoutCount' >= timeoutCount
        /\ timeoutCount' # timeoutCount =>
             /\ timeoutCount' = timeoutCount + 1
             /\ \E c \in Calls :
                  outcome[c].kind = "pending" /\ outcome'[c].kind = "timeout"
        /\ (\E c \in Calls :
              outcome[c].kind # "timeout" /\ outcome'[c].kind = "timeout")
             => timeoutCount' # timeoutCount
        /\ reads' # reads =>
             reads' = Append(reads, timeoutCount) /\ timeoutCount' = timeoutCount]_vars
  /\ [](timeoutCount = Cardinality({c \in Calls : outcome[c].kind = "timeout"}))

PhaseOrder ==
  { <<"idle", "subscribing">>, <<"idle", "done">>, <<"subscribing", "racing">>,
    <<"racing", "cleanup">>, <<"cleanup", "done">> }

\* C14: a call moves idle, subscribing, racing, cleanup, done in that order
\* (idle to done only for a signature that fails validation); registrations
\* happen only while subscribing and the wait starts after all of them; the
\* race is decided once (a callback, the timer, or a registration error) and
\* before cleanup; the call makes no removeSignatureListener request before
\* cleanup, never skips cleanup, and reports a result or the timeout error
\* only after the cleanup loop is over.
C14_PhasesInOrder ==
  /\ [][\A c \in Calls :
          /\ pc'[c] # pc[c] => <<pc[c], pc'[c]>> \in PhaseOrder
          /\ (pc[c] = "idle" /\ pc'[c] = "done") => NotASignature(signature'[c])
          /\ (pc[c] = "idle" /\ pc'[c] = "subscribing") => ~NotASignature(signature'[c])
          /\ Len(promises'[c]) # Len(promises[c]) => pc[c] = "subscribing"
          /\ (pc[c] = "subscribing" /\ pc'[c] = "racing")
               => Len(promises[c]) = Len(connections[c])
          /\ (pc[c] = "racing" /\ pc'[c] = "cleanup")
               => race[c] \in {"resolved", "timedout", "rejected"}
          /\ race[c] # "pending" => race'[c] = race[c]
          /\ race'[c] # race[c] => pc'[c] = "racing"
          /\ removeLog'[c] # removeLog[c] => pc[c] = "cleanup"
          /\ (outcome[c].kind = "pending" /\ outcome'[c].kind \in {"result", "timeout"})
               => pc[c] = "cleanup" /\ cursor[c] > Len(subscriptionIds[c])]_vars
  /\ [](\A c \in Calls :
          /\ pc[c] \in {"idle", "subscribing", "racing"}
               => removeLog[c] = << >> /\ outcome[c] = Pending
          /\ pc[c] = "cleanup" => race[c] # "pending" /\ outcome[c] = Pending
          /\ race[c] = "resolved" => response[c] # NoResponse
          /\ race[c] = "timedout" => timeoutId[c] \in {"fired", "cleared"})

\* C14 witness: a registration threw, the race was rejected, and the call
\* still unregistered the subscription it had before it ended.
C14_Witness ==
  /\ Done(1)
  /\ race[1] = "rejected"
  /\ outcome[1].kind = "registrationError"
  /\ \E r \in Range(removeLog[1]) : r.result = "removed"

\* C15: the cleanup loop passes no entry whose handle is still registered:
\* when it has moved past the entry of a subscription whose callback was not
\* invoked, that subscription was unregistered, whatever the value of the
\* handle; and no entry is the subject of two requests.
C15_EveryHandleUnregisteredOnce ==
  \A c \in Calls :
    /\ \A l \in ListenersOf(c) :
         ~(l.idx < cursor[c] /\ subscriptionIds[c][l.idx] = l.id)
    /\ \A j \in 1..Len(subscriptionIds[c]) :
         Cardinality({k \in 1..Len(removeLog[c]) : removeLog[c][k].idx = j}) <= 1

\* C16: the onSignature calls of a call are made one after the other on the
\* call's connections in their order, the primary connection first and then
\* the additional ones in the order in which addAdditionalConnection took
\* them; each is made with the call's signature and with the commitment
\* argument when one was given, this.opts.commitment otherwise.
C16_RegistrationOrderAndArguments ==
  /\ [][/\ additionalConnections' # additionalConnections =>
             /\ addLog' # addLog
             /\ additionalConnections' =
                  Append(additionalConnections, addLog'[Len(addLog')])
        /\ \A c \in Calls :
             /\ (pc[c] = "idle" /\ pc'[c] = "subscribing") =>
                  connections'[c] = <<PrimaryConnection>> \o additionalConnections
             /\ regLog'[c] # regLog[c] =>
                  /\ Len(regLog'[c]) = Len(regLog[c]) + 1
                  /\ SubSeq(regLog'[c], 1, Len(regLog[c])) = regLog[c]]_vars
  /\ [](\A c \in Calls :
          /\ Len(regLog[c]) = Len(promises[c])
          /\ \A k \in 1..Len(regLog[c]) :
               /\ regLog[c][k].conn = connections[c][k]
               /\ regLog[c][k].signature = signature[c]
               /\ regLog[c][k].commitment =
                    IF commitment[c] \in Commitments THEN commitment[c] ELSE opts)

\* C16 witness: a call with a commitment argument other than the sender's
\* default has registered on the primary connection and on two additional
\* connections that were added in the order 2, 1.
C16_Witness ==
  /\ additionalConnections = <<2, 1>>
  /\ Len(regLog[1]) = 3
  /\ commitment[1] = "finalized"
  /\ opts = "processed"

RECURSIVE PresentSigners(_)
\* The entries of an additionalSigners array that are signers, in order.
PresentSigners(signers) ==
  IF signers = << >> THEN << >>
  ELSE IF Head(signers) \in 1..NumSigners
       THEN <<Head(signers)>> \o PresentSigners(Tail(signers))
       ELSE PresentSigners(Tail(signers))

\* The calls prepareTx makes when nothing fails: partialSign for every signer
\* of the array, in order, then signTransaction of the wallet.
ExpectedSigning ==
  [k \in 1..Len(PresentSigners(additionalSigners)) |->
     [op |-> "partialSign", signer |-> PresentSigners(additionalSigners)[k]]]
  \o << [op |-> "signTransaction", signer |-> "wallet"] >>

C17_WitnessFetchFailed ==
  /\ prepOutcome = "fetchError"
  /\ PresentSigners(additionalSigners) # << >>

\* C18: a call that has returned or thrown has no timer pending: the timer it
\* set has fired or was cleared.
C18_NoTimerAfterCall ==
  \A c \in Calls : (Done(c) /\ Started(c)) => timeoutId[c] \in {"fired", "cleared"}

\* C19: every removeSignatureListener request of a call is made on a
\* connection that returned the handle of the request to one of the call's
\* onSignature calls.
C19_RequestGoesToIssuer ==
  \A c \in Calls :
    \A r \in Range(removeLog[c]) :
      \E k \in 1..Len(regLog[c]) :
        regLog[c][k].conn = r.conn /\ regLog[c][k].id = r.id

\* C20: calls in flight at the same time keep to themselves: a call
\* returns a response that one of its own callbacks delivered, and a
\* removeSignatureListener request of a call removes no subscription of
\* another call.
C20_CallsDoNotInterfere ==
  \A c \in Calls :
    /\ outcome[c].kind = "result" =>
         \E k \in 1..Len(cbLog[c]) : cbLog[c][k].payload = outcome[c].value
    /\ \A r \in Range(removeLog[c]) : r.owners \subseteq {c}

\* C13 witness: two calls ended with the timeout error and one read of the
\* counter returned 1 between them; connections were added and a raw
\* transaction fanned out meanwhile.
C13_Witness ==
  /\ \A c \in Calls : outcome[c].kind = "timeout"
  /\ timeoutCount = 2
  /\ reads = <<1>>
  /\ addLog # << >>
  /\ fanOuts > 0

CounterCountsTimeouts ==
  timeoutCount = Cardinality({c \in Calls : outcome[c].kind = "timeout"})

====
